---------------------------- MODULE Spec2Model ----------------------------
(***************************************************************************)
(* A model of the cryptofun public-key engine: prime generation and the    *)
(* modular inverse (utils/primes.rs), RSA (encryption/rsa.rs),             *)
(* Diffie-Hellman (key_exchange/diffie_hellman.rs) and the elliptic-curve  *)
(* engines (utils/ecc.rs, utils/comb_method.rs, utils/jacobian_coords.rs,  *)
(* utils/montgomery_ladder.rs, key_exchange/ecdh.rs, signature/ecdsa.rs).  *)
(*                                                                         *)
(* Every random draw of the code is a nondeterministic choice over the     *)
(* whole range the random source can return.  Number widths are scaled     *)
(* down so that a model checker can enumerate them; the scaled widths are  *)
(* named bounds.  A panic of the code is a state with status "panic".      *)
(***************************************************************************)
EXTENDS Integers, Sequences, FiniteSets, TLC

VARIABLES primes, rsa, dh, ec

vars == <<primes, rsa, dh, ec>>

(***************************************************************************)
(* Big-integer surface (num-bigint), as the code uses it.                  *)
(***************************************************************************)

RECURSIVE Pow2(_)
Pow2(k) == IF k <= 0 THEN 1 ELSE 2 * Pow2(k - 1)

\* BigUint::bits(): the number of significant bits, 0 for 0.
RECURSIVE Bits(_)
Bits(v) == IF v <= 0 THEN 0 ELSE 1 + Bits(v \div 2)

\* (a * b) mod m without leaving the machine word of the model checker:
\* three bits of b at a time, for m below 2^27.
RECURSIVE MulMod(_, _, _)
MulMod(a, b, m) ==
    IF a < 32768 /\ b < 32768 THEN (a * b) % m
    ELSE IF b = 0 THEN 0
    ELSE LET h == MulMod(a % m, b \div 8, m)
         IN  (8 * h + (b % 8) * (a % m)) % m

\* BigUint::modpow(exponent, modulus), by binary exponentiation.  The loop
\* state s holds the result so far, the running square and the exponent bits
\* still to be used.
RECURSIVE modpow_loop(_, _)
modpow_loop(modulus, s) ==
    IF s.exponent = 0 THEN s.result
    ELSE modpow_loop(modulus,
             [result   |-> IF s.exponent % 2 = 1
                           THEN MulMod(s.result, s.square, modulus) ELSE s.result,
              square   |-> MulMod(s.square, s.square, modulus),
              exponent |-> s.exponent \div 2])

ModPow(base, exponent, modulus) ==
    IF modulus = 1 THEN 0
    ELSE modpow_loop(modulus,
             [result |-> 1, square |-> base % modulus, exponent |-> exponent])

\* num_integer::gcd.
RECURSIVE Gcd(_, _)
Gcd(a, b) == IF b = 0 THEN a ELSE Gcd(b, a % b)

\* Reference notion of primality, used only to state properties.
IsPrime(v) == v >= 2 /\ \A i \in 2..(v - 1) : v % i # 0

(***************************************************************************)
(* utils/primes.rs                                                         *)
(***************************************************************************)

LARGE_THRESHOLD == 25

\* Bit lengths and arguments the prime-generation specification enumerates.
MaxGenBits == 6
MaxModInvArg == 12

\* The largest candidate handed to miller_rabin on its own, and the largest
\* number of iterations.
MaxMRCandidate == 13
MaxMRIterations == 2

\* generate_random_biguint: gen_biguint(bitlength - 1) returns `drawn` in
\* [0, 2^(bitlength-1)); the candidate is (drawn << 1) ^ 1.
generate_random_biguint(drawn) == 2 * drawn + 1

RandomCandidates(bitlength) ==
    { generate_random_biguint(c) : c \in 0..(Pow2(bitlength - 1) - 1) }

\* (cast as f64).sqrt() as u64
ISqrt(v) == CHOOSE s \in 0..v : s * s <= v /\ (s + 1) * (s + 1) > v

is_small_prime_exclusive(cast) ==
    IF cast < 2 THEN FALSE
    ELSE IF cast = 2 THEN TRUE
    ELSE \A i \in 2..(ISqrt(cast) - 1) : cast % i # 0

\* is_small_prime: `for i in 2..(sqrt as u64)` excludes its upper end.
is_small_prime(cast) == is_small_prime_exclusive(cast)

\* fermat_little with `random` the value of gen_biguint_below(candidate).
fermat_little(candidate, random) ==
    ModPow(random, candidate - 1, candidate) = 1

\* greatest_2_divisor(num) = <<s, d>> with num - 1 = 2^s * d, d odd.
RECURSIVE g2d_loop(_, _)
g2d_loop(s, num) == IF num % 2 = 0 THEN g2d_loop(s + 1, num \div 2) ELSE <<s, num>>

greatest_2_divisor(num) == g2d_loop(0, num - 1)

\* The inner squaring loop of miller_rabin and the statement after it: the
\* function returns false when y reaches one, and also after the loop, whether
\* the loop ran out or left through `break` on y = candidate - 1.
RECURSIVE mr_squarings(_, _, _)
mr_squarings(y, left, candidate) ==
    IF left = 0 THEN FALSE
    ELSE LET y2 == ModPow(y, 2, candidate)
         IN  IF y2 = 1 THEN FALSE
             ELSE IF y2 = candidate - 1 THEN FALSE
             ELSE mr_squarings(y2, left - 1, candidate)

\* One round of miller_rabin for one drawn basis: TRUE is `continue`.
mr_round(candidate, basis) ==
    LET sd == greatest_2_divisor(candidate)
        y  == ModPow(basis, sd[2], candidate)
    IN  IF y = 1 \/ y = candidate - 1 THEN TRUE
        ELSE mr_squarings(y, sd[1], candidate)

\* miller_rabin(candidate, iterations) for the drawn bases.
miller_rabin(candidate, bases) ==
    \A k \in 1..Len(bases) : mr_round(candidate, bases[k])

\* gen_biguint_range(2, candidate - 2) is the half-open range [2, candidate - 2).
MRBases(candidate) == 2..(candidate - 3)

is_large_prime(candidate, random, bases) ==
    fermat_little(candidate, random) /\ miller_rabin(candidate, bases)

\* Some draws make is_large_prime(candidate) return true.  The three bases
\* are independent draws from one range, so a passing triple exists exactly
\* when a passing basis exists.
is_large_prime_possible(candidate) ==
    /\ candidate >= 5
    /\ \E random \in 0..(candidate - 1) : fermat_little(candidate, random)
    /\ \E b \in MRBases(candidate) : is_large_prime(candidate, 1, <<b, b, b>>)

\* The test of generate's loop for one candidate.
generate_accepts(bitlength, candidate) ==
    \/ bitlength < LARGE_THRESHOLD /\ is_small_prime(candidate)
    \/ bitlength >= LARGE_THRESHOLD /\ is_large_prime_possible(candidate)

\* modular_inverse: the extended Euclid loop on (mn, xy), then the loop that
\* lifts a negative xy.0 by the modulus.
\* The loop state s holds the two pairs mn and xy of the code.
RECURSIVE ee_loop(_)
ee_loop(s) ==
    IF s.mn[2] = 0 THEN s.xy[1]
    ELSE ee_loop([xy |-> <<s.xy[2], s.xy[1] - (s.mn[1] \div s.mn[2]) * s.xy[2]>>,
                  mn |-> <<s.mn[2], s.mn[1] % s.mn[2]>>])

RECURSIVE lift_negative(_, _)
lift_negative(x, modulus) == IF x < 0 THEN lift_negative(x + modulus, modulus) ELSE x

modular_inverse_unlifted(a, modulus) ==
    ee_loop([mn |-> <<modulus, a>>, xy |-> <<0, 1>>])

modular_inverse(a, modulus) ==
    lift_negative(ee_loop([mn |-> <<modulus, a>>, xy |-> <<0, 1>>]), modulus)

(***************************************************************************)
(* The prime-generation specification: each action is one call.            *)
(***************************************************************************)

PrimesIdle ==
    [op |-> "idle", bitlength |-> 0, candidate |-> 0, returned |-> FALSE,
     a |-> 0, modulus |-> 0, out |-> 0, bases |-> <<>>]

\* generate(bitlength): the loop draws candidates until one is accepted and
\* returns it; drawn is the draw of the iteration that returns.
generate(bitlength, drawn) ==
    LET candidate == generate_random_biguint(drawn)
    IN  /\ generate_accepts(bitlength, candidate)
        /\ primes' = [PrimesIdle EXCEPT !.op = "generate", !.bitlength = bitlength,
                                        !.candidate = candidate, !.returned = TRUE]

CallGenerateRandomBiguint(bitlength, drawn) ==
    primes' = [PrimesIdle EXCEPT !.op = "generate_random_biguint",
                                 !.bitlength = bitlength,
                                 !.candidate = generate_random_biguint(drawn)]

CallIsSmallPrime(candidate) ==
    primes' = [PrimesIdle EXCEPT !.op = "is_small_prime", !.candidate = candidate,
                                 !.returned = is_small_prime(candidate)]

CallModularInverse(a, modulus) ==
    primes' = [PrimesIdle EXCEPT !.op = "modular_inverse", !.a = a,
                                 !.modulus = modulus,
                                 !.out = modular_inverse(a, modulus)]

(***************************************************************************)
(* encryption/rsa.rs                                                       *)
(***************************************************************************)

RSA_CHUNK == 30
RSA_MIN_N == 128
RSA_MIN_EXPONENT == 3

\* check_input_params refuses a bitlength below 128.  The model scales the
\* modulus down to RSA_MIN_BITLENGTH bits, the narrowest width at which
\* size_n - 1 bits of blinding are not empty; every accepted bitlength still
\* gives primes of at least LARGE_THRESHOLD bits in the code, so the model
\* draws p and q through is_large_prime.
RSA_MIN_BITLENGTH == 16
RSABitLengths == (RSA_MIN_BITLENGTH - 1)..(RSA_MIN_BITLENGTH + 1)
RSAExponents == {2, 3, 4, 17, 65537}
\* Plaintexts (12345 is the value of the repository's tests), the values of
\* the 28 random bytes of exponent blinding, and the number of encrypt calls.
RSAMessages == {1, 12345, 65535}
MaxBlindR == 1
MaxRoundTrips == 2
\* The draws of gen_biguint(rs_bitlength - 1) that get_totient_values is given
\* are the MaxPrimeDraws largest ones.
MaxPrimeDraws == 12

\* BigUint::to_bytes_le and BigUint::from_bytes_le.
RECURSIVE to_bytes_le_digits(_)
to_bytes_le_digits(v) ==
    IF v = 0 THEN <<>> ELSE <<v % 256>> \o to_bytes_le_digits(v \div 256)

to_bytes_le(v) == IF v = 0 THEN <<0>> ELSE to_bytes_le_digits(v)

RECURSIVE from_bytes_le(_)
from_bytes_le(bytes) ==
    IF bytes = <<>> THEN 0 ELSE Head(bytes) + 256 * from_bytes_le(Tail(bytes))

\* `while v.len() < size { v.push(0) }`
RECURSIVE pad_right(_, _)
pad_right(bytes, size) ==
    IF Len(bytes) < size THEN pad_right(Append(bytes, 0), size) ELSE bytes

\* slice::chunks(size): every chunk has `size` entries but the last, which
\* holds the rest.
RECURSIVE slice_chunks(_, _)
slice_chunks(bytes, size) ==
    IF bytes = <<>> THEN <<>>
    ELSE IF Len(bytes) <= size THEN <<bytes>>
    ELSE <<SubSeq(bytes, 1, size)>> \o slice_chunks(SubSeq(bytes, size + 1, Len(bytes)), size)

\* transform::get_exact_chunks: a chunk is pushed only when it is full.
RECURSIVE get_exact_chunks(_, _)
get_exact_chunks(full_input, chunk_size) ==
    IF Len(full_input) < chunk_size THEN <<>>
    ELSE <<SubSeq(full_input, 1, chunk_size)>>
         \o get_exact_chunks(SubSeq(full_input, chunk_size + 1, Len(full_input)), chunk_size)

\* RSA::new
RSANew(use_crt) ==
    [status |-> "new", err |-> "", use_crt |-> use_crt,
     n |-> 0, e |-> 0, d |-> 0, p |-> 0, q |-> 0, dp |-> 0, dq |-> 0, qp |-> 0,
     v_i |-> 0, v_f |-> 0, size_n |-> 0,
     phase |-> "none", mode |-> "none", data |-> <<>>, ct |-> <<>>, pt |-> <<>>,
     calls |-> 0]

\* The values primes::generate(rs_bitlength) can return to get_totient_values.
RSAPrimeTable ==
    [b \in { bl \div 2 : bl \in RSABitLengths } |->
        { c \in { generate_random_biguint(drawn) :
                     drawn \in (Pow2(b - 1) - MaxPrimeDraws)..(Pow2(b - 1) - 1) } :
            is_large_prime_possible(c) }]

check_input_params(bitlength, exponent) ==
    ~(bitlength < RSA_MIN_BITLENGTH) /\ ~(exponent < RSA_MIN_EXPONENT)

\* get_totient_values without its gcd(e, totient) = 1 test (a deliberately
\* wrong variant, used to see that C2 depends on the test).
totient_iteration_any_exponent(bitlength, exponent, first, second) ==
    LET p == IF first < second THEN second ELSE first
        q == IF first < second THEN first ELSE second
    IN  first # second /\ Bits(p * q) = bitlength

\* The iteration of get_totient_values' loop that leaves it, for the drawn
\* primes first and second.
totient_iteration_ok(bitlength, exponent, first, second) ==
    LET p == IF first < second THEN second ELSE first
        q == IF first < second THEN first ELSE second
    IN  /\ first # second
        /\ Bits(p * q) = bitlength
        /\ Gcd(exponent, (p - 1) * (q - 1)) = 1

size_n_of(n) == Bits(n + 7) \div 8

\* generate_keypair after get_totient_values returned (p, q, totient).
keypair_fields(k, exponent, first, second) ==
    LET p == IF first < second THEN second ELSE first
        q == IF first < second THEN first ELSE second
        totient == (p - 1) * (q - 1)
        d == modular_inverse(exponent, totient)
    IN  [k EXCEPT !.status = "ready", !.e = exponent, !.p = p, !.q = q, !.n = p * q,
                  !.d = d, !.dp = d % (p - 1), !.dq = d % (q - 1),
                  !.qp = modular_inverse(q, p), !.size_n = size_n_of(p * q)]

generate_keypair(bitlength, exponent, first, second) ==
    /\ rsa.status = "new"
    /\ check_input_params(bitlength, exponent)
    /\ totient_iteration_ok(bitlength, exponent, first, second)
    /\ rsa' = keypair_fields(rsa, exponent, first, second)

generate_keypair_rejected(bitlength, exponent) ==
    /\ rsa.status = "new"
    /\ ~check_input_params(bitlength, exponent)
    /\ rsa' = [rsa EXCEPT !.status = "panic", !.err = "InvalidParameter"]

\* check_public_key and check_private_key; check_keypair panics unless both hold.
check_public_key(k) ==
    ~(k.n < RSA_MIN_N) /\ ~(k.e < 2 \/ k.e >= k.n)

check_private_key(k) ==
    LET p1 == k.p - 1
        q1 == k.q - 1
    IN  ~(\/ k.p * k.q # k.n
          \/ k.d % p1 # k.dp
          \/ k.d % q1 # k.dq
          \/ modular_inverse(k.q, k.p) # k.qp
          \/ Gcd(k.e, p1 * q1) # 1)

check_keypair(k) == check_public_key(k) /\ check_private_key(k)

\* prepare_blinding.  drawn is the value of gen_biguint(size_n - 1) that ends
\* the loop, or -1 when ten draws in a row had gcd(v_f, n) # 1.
BlindingDraws(k) ==
    {-1} \cup { v \in 0..(Pow2(k.size_n - 1) - 1) : Gcd(v, k.n) = 1 }

\* prepare_blinding whose update squares v_i but leaves v_f as it was (a
\* deliberately wrong variant, used to see that C20 depends on the update).
prepare_blinding_keeps_v_f(k, drawn) ==
    IF k.v_f # 0
    THEN [k EXCEPT !.v_i = MulMod(k.v_i, k.v_i, k.n)]
    ELSE IF k.v_i = 1 THEN [k EXCEPT !.v_i = ModPow(modular_inverse(k.v_f, k.n), k.e, k.n)]
    ELSE IF drawn = -1 THEN [k EXCEPT !.status = "panic", !.err = "BlindingFailure"]
    ELSE [k EXCEPT !.v_f = drawn,
                   !.v_i = ModPow(modular_inverse(drawn, k.n), k.e, k.n)]

prepare_blinding(k, drawn) ==
    IF k.v_f # 0
    THEN [k EXCEPT !.v_i = MulMod(k.v_i, k.v_i, k.n), !.v_f = MulMod(k.v_f, k.v_f, k.n)]
    ELSE IF k.v_i = 1 THEN [k EXCEPT !.v_i = ModPow(modular_inverse(k.v_f, k.n), k.e, k.n)]
    ELSE IF drawn = -1 THEN [k EXCEPT !.status = "panic", !.err = "BlindingFailure"]
    ELSE [k EXCEPT !.v_f = drawn,
                   !.v_i = ModPow(modular_inverse(drawn, k.n), k.e, k.n)]

\* The CRT recombination; t1 - t2 is a BigUint subtraction, which panics
\* when t1 < t2.
crt_underflows(t1, t2) == t1 < t2

crt_recombine(k, t1, t2) == MulMod(t1 - t2, k.qp, k.p) * k.q + t2

\* use_private_key(input) with the draws of this call: the blinding draw and
\* the two exponent-blinding values r1, r2.  The result is <<key, output>>.
use_private_key(k0, input, drawn, r1, r2) ==
    LET exponents_blinded(k1) ==
            IF k1.use_crt
            THEN [k1 EXCEPT !.dp = (k1.p - 1) * r1 + k1.dp,
                            !.dq = (k1.q - 1) * r2 + k1.dq]
            ELSE k1
        recombined(k2, t1, t2) ==
            IF crt_underflows(t1, t2)
            THEN <<[k2 EXCEPT !.status = "panic", !.err = "SubtractUnderflow"], 0>>
            ELSE <<k2, MulMod(crt_recombine(k2, t1, t2), k2.v_f, k2.n)>>
        powered(k2, t) ==
            IF k2.use_crt
            THEN recombined(k2, ModPow(t, k2.dp, k2.p), ModPow(t, k2.dq, k2.q))
            ELSE <<k2, MulMod(ModPow(t, k2.d, k2.n), k2.v_f, k2.n)>>
        blinded(k1) ==
            IF k1.status = "panic" THEN <<k1, 0>>
            ELSE powered(exponents_blinded(k1), MulMod(input, k1.v_i, k1.n))
    IN  blinded(prepare_blinding(k0, drawn))

use_public_key(k, input) == ModPow(input, k.e, k.n)

\* One chunk through the key in the given mode: <<key, output>>.
chunk_operation(k, mode, input, drawn, r1, r2) ==
    IF mode = "Private" THEN use_private_key(k, input, drawn, r1, r2)
    ELSE <<k, use_public_key(k, input)>>

\* The loop of encrypt over data.chunks(RSA_CHUNK): <<key, encrypted>>.
RECURSIVE encrypt_chunks(_, _, _, _, _, _, _)
encrypt_chunks(k, chunks, mode, drawn, r1, r2, encrypted) ==
    IF chunks = <<>> \/ k.status = "panic" THEN <<k, encrypted>>
    ELSE LET pushed(res) ==
                 encrypt_chunks(res[1], Tail(chunks), mode, drawn, r1, r2,
                                encrypted \o pad_right(to_bytes_le(res[2]), k.size_n))
         IN  pushed(chunk_operation(k, mode, from_bytes_le(Head(chunks)), drawn, r1, r2))

\* The loop of decrypt over get_exact_chunks(ciphertext, size_n); every chunk
\* but the last is padded to RSA_CHUNK bytes: <<key, decrypted>>.
RECURSIVE decrypt_chunks(_, _, _, _, _, _, _)
decrypt_chunks(k, chunks, mode, drawn, r1, r2, decrypted) ==
    IF chunks = <<>> \/ k.status = "panic" THEN <<k, decrypted>>
    ELSE LET padded(raw) == IF Len(chunks) > 1 THEN pad_right(raw, RSA_CHUNK) ELSE raw
             pushed(res) ==
                 decrypt_chunks(res[1], Tail(chunks), mode, drawn, r1, r2,
                                decrypted \o padded(to_bytes_le(res[2])))
         IN  pushed(chunk_operation(k, mode, from_bytes_le(Head(chunks)), drawn, r1, r2))

\* encrypt(data, mode, generator)
encrypt_data(data, mode, drawn, r1, r2) ==
    /\ rsa.status = "ready"
    /\ rsa.phase \in {"none", "decrypted"}
    /\ rsa.calls < MaxRoundTrips
    /\ LET stored(res) ==
               [res[1] EXCEPT !.phase = "encrypted", !.mode = mode, !.data = data,
                              !.ct = res[2], !.pt = <<>>, !.calls = rsa.calls + 1]
       IN  rsa' = stored(encrypt_chunks(rsa, slice_chunks(data, RSA_CHUNK), mode,
                                        drawn, r1, r2, <<>>))

\* encrypt of the bytes of the number x.
encrypt(x, mode, drawn, r1, r2) == encrypt_data(to_bytes_le(x), mode, drawn, r1, r2)

\* decrypt of the ciphertext of the last encrypt, in the opposite mode.
decrypt(drawn, r1, r2) ==
    /\ rsa.status = "ready"
    /\ rsa.phase = "encrypted"
    /\ LET mode == IF rsa.mode = "Public" THEN "Private" ELSE "Public"
           stored(res) == [res[1] EXCEPT !.phase = "decrypted", !.pt = res[2]]
       IN  rsa' = stored(decrypt_chunks(rsa, get_exact_chunks(rsa.ct, rsa.size_n), mode,
                                        drawn, r1, r2, <<>>))

InitRSA ==
    /\ \E use_crt \in BOOLEAN : rsa = RSANew(use_crt)
    /\ primes = PrimesIdle /\ dh = [status |-> "idle"] /\ ec = [status |-> "idle"]

NextRSA ==
    /\ UNCHANGED <<primes, dh, ec>>
    /\ \/ /\ rsa.status = "new"
          /\ \E bl \in RSABitLengths, ex \in RSAExponents :
                \E first, second \in RSAPrimeTable[bl \div 2] :
                    generate_keypair(bl, ex, first, second)
       \/ /\ rsa.status = "new"
          /\ \E bl \in RSABitLengths, ex \in RSAExponents :
                generate_keypair_rejected(bl, ex)
       \/ /\ rsa.status = "ready" /\ rsa.phase \in {"none", "decrypted"}
          /\ \E x \in RSAMessages, mode \in {"Public", "Private"} :
                \E drawn \in BlindingDraws(rsa), r1, r2 \in 0..MaxBlindR :
                    encrypt(x, mode, drawn, r1, r2)
       \/ /\ rsa.status = "ready" /\ rsa.phase = "encrypted"
          /\ \E drawn \in BlindingDraws(rsa), r1, r2 \in 0..MaxBlindR :
                decrypt(drawn, r1, r2)

SpecRSA == InitRSA /\ [][NextRSA]_vars

(***************************************************************************)
(* The same calls on keys one byte wider, where size_n = 3 and the draw of *)
(* prepare_blinding, gen_biguint(size_n - 1), has two bits, and on keys    *)
(* whose bit length is not a multiple of 8.                                *)
(***************************************************************************)

RSAWideBitLengths == (RSA_MIN_BITLENGTH + 8)..(RSA_MIN_BITLENGTH + 10)
RSAWideExponents == {3, 17}

\* The values primes::generate(rs_bitlength) can return, among the
\* MaxPrimeDraws \div 2 largest draws.
RSAWidePrimeTable ==
    [b \in { bl \div 2 : bl \in RSAWideBitLengths } |->
        { c \in { generate_random_biguint(drawn) :
                     drawn \in (Pow2(b - 1) - MaxPrimeDraws \div 2)..(Pow2(b - 1) - 1) } :
            is_large_prime_possible(c) }]

\* The inputs of encrypt: the bytes of the plaintexts, and inputs of two and
\* of three groups of RSA_CHUNK bytes.
RSAWideData ==
    { to_bytes_le(x) : x \in RSAMessages }
    \cup { pad_right(to_bytes_le(12345), RSA_CHUNK) \o <<7>>,
           pad_right(<<1>>, 2 * RSA_CHUNK) \o <<2>> }

NextRSAWide ==
    /\ UNCHANGED <<primes, dh, ec>>
    /\ \/ /\ rsa.status = "new"
          /\ \E bl \in RSAWideBitLengths, ex \in RSAWideExponents :
                \E first, second \in RSAWidePrimeTable[bl \div 2] :
                    generate_keypair(bl, ex, first, second)
       \/ /\ rsa.status = "ready" /\ rsa.phase \in {"none", "decrypted"}
          /\ \E data \in RSAWideData, mode \in {"Public", "Private"} :
                \E drawn \in BlindingDraws(rsa), r1, r2 \in 0..MaxBlindR :
                    encrypt_data(data, mode, drawn, r1, r2)
       \/ /\ rsa.status = "ready" /\ rsa.phase = "encrypted"
          /\ \E drawn \in BlindingDraws(rsa), r1, r2 \in 0..MaxBlindR :
                decrypt(drawn, r1, r2)

SpecRSAWide == InitRSA /\ [][NextRSAWide]_vars

(***************************************************************************)
(* The key-generation specification: generate_keypair with the loop of     *)
(* get_totient_values taken one iteration at a time.                       *)
(***************************************************************************)

\* The exponents generate_keypair is called with: one that check_input_params
\* rejects, odd ones and an even one.
KeygenExponents == {2, 3, 4, 17}

KeygenInitial ==
    [status |-> "new", bitlength |-> 0, exponent |-> 0, first |-> 0, second |-> 0,
     key |-> RSANew(FALSE)]

\* generate_keypair(bitlength, exponent) up to the loop of get_totient_values:
\* check_input_params panics or lets the call go on.
CallGenerateKeypair(bitlength, exponent) ==
    /\ rsa.status = "new"
    /\ rsa' = [rsa EXCEPT !.bitlength = bitlength, !.exponent = exponent,
                          !.status = IF check_input_params(bitlength, exponent)
                                     THEN "generating" ELSE "panic"]

\* One iteration of `while co_primality != BigUint::one()` that reaches
\* `continue` or leaves co_primality # 1: the loop goes on.
TotientIterationContinues(first, second) ==
    /\ rsa.status = "generating"
    /\ ~totient_iteration_ok(rsa.bitlength, rsa.exponent, first, second)
    /\ rsa' = [rsa EXCEPT !.first = first, !.second = second]

\* The iteration that leaves the loop; generate_keypair fills the key and
\* returns.
TotientIterationLeaves(first, second) ==
    /\ rsa.status = "generating"
    /\ totient_iteration_ok(rsa.bitlength, rsa.exponent, first, second)
    /\ rsa' = [rsa EXCEPT !.first = first, !.second = second, !.status = "ready",
                          !.key = keypair_fields(rsa.key, rsa.exponent, first, second)]

\* Some draw of the two primes leaves the loop.
KeygenLeaves ==
    /\ UNCHANGED <<primes, dh, ec>>
    /\ rsa.status = "generating"
    /\ \E first, second \in RSAPrimeTable[rsa.bitlength \div 2] :
          TotientIterationLeaves(first, second)

InitKeygen ==
    /\ rsa = KeygenInitial
    /\ primes = PrimesIdle /\ dh = [status |-> "idle"] /\ ec = [status |-> "idle"]

NextKeygen ==
    \/ /\ UNCHANGED <<primes, dh, ec>>
       /\ \E bl \in RSABitLengths, ex \in KeygenExponents : CallGenerateKeypair(bl, ex)
    \/ /\ UNCHANGED <<primes, dh, ec>>
       /\ rsa.status = "generating"
       /\ \E first, second \in RSAPrimeTable[rsa.bitlength \div 2] :
             TotientIterationContinues(first, second)
    \/ KeygenLeaves

\* The random source is fair: a pair of draws that can come up in every
\* iteration does come up.
SpecKeygen ==
    InitKeygen /\ [][NextKeygen]_vars /\ WF_vars(NextKeygen) /\ SF_vars(KeygenLeaves)

(***************************************************************************)
(* Properties of RSA.                                                      *)
(***************************************************************************)

\* C1: for a generated key and a plaintext x of at most size_n bytes,
\* decrypt(encrypt(x, Public), Private) = x and decrypt(encrypt(x, Private),
\* Public) = x, with and without CRT, on every repeated call.  Stated here for
\* the keys and plaintexts on which textbook RSA is a bijection (p and q
\* prime, x < n), and not counting the documented BlindingFailure.
C1_RoundTrip ==
    LET x == from_bytes_le(rsa.data)
    IN  (/\ rsa.status \in {"ready", "panic"}
         /\ rsa.phase \in {"encrypted", "decrypted"}
         /\ IsPrime(rsa.p) /\ IsPrime(rsa.q)
         /\ x < rsa.n
         /\ rsa.err # "BlindingFailure")
        => /\ rsa.status = "ready"
           /\ rsa.phase = "decrypted" => from_bytes_le(rsa.pt) = x

C3_InvariantsPreserved ==
    rsa.status = "ready" => check_private_key(rsa)

\* C19: two consecutive private operations on the same key with the same
\* input return the same result, and the blinding pair (v_i, v_f) used by the
\* second operation differs from the pair used by the first.  The two
\* operations are encrypt(x, Private) calls; the decrypt(.., Public) between
\* them leaves the blinding pair alone.
C19_BlindingEvolution ==
    [][(/\ rsa.status = "ready" /\ rsa.phase = "decrypted" /\ rsa.mode = "Private"
        /\ rsa'.phase = "encrypted" /\ rsa'.mode = "Private"
        /\ rsa'.data = rsa.data)
       => /\ rsa'.status = "ready"
          /\ rsa'.ct = rsa.ct
          /\ <<rsa'.v_i, rsa'.v_f>> # <<rsa.v_i, rsa.v_f>>]_vars

\* C20: after every private operation on a generated key the blinding pair
\* satisfies v_i * v_f^e = 1 (mod n) with gcd(v_f, n) = 1, after a fresh draw
\* and after each squaring update.
C20_BlindingPair ==
    (rsa.status = "ready" /\ rsa.v_f # 0)
    => /\ MulMod(rsa.v_i, ModPow(rsa.v_f, rsa.e, rsa.n), rsa.n) = 1
       /\ Gcd(rsa.v_f, rsa.n) = 1

\* A key whose pair was drawn as v_f = 3 and has been squared once.
C20_Witness ==
    /\ rsa.status = "ready" /\ rsa.calls >= 2 /\ rsa.v_f = 9 /\ rsa.v_i > 1
    /\ MulMod(rsa.v_i, ModPow(rsa.v_f, rsa.e, rsa.n), rsa.n) = 1

\* C25: for a generated key (p, q prime) with use_crt = true and every input
\* t in [0, n), the private operation completes and returns t^d mod n, the
\* value the operation without CRT returns, on the first and on every later
\* call.  The ciphertext of a private encrypt of one chunk is that value in
\* size_n little-endian bytes.  Calls that give up drawing a blinding value
\* are left out.
C25_CrtAgrees ==
    (/\ rsa.use_crt /\ rsa.phase = "encrypted" /\ rsa.mode = "Private"
     /\ IsPrime(rsa.p) /\ IsPrime(rsa.q)
     /\ from_bytes_le(rsa.data) < rsa.n
     /\ rsa.err # "BlindingFailure")
    => /\ rsa.status = "ready"
       /\ rsa.ct = pad_right(to_bytes_le(ModPow(from_bytes_le(rsa.data), rsa.d, rsa.n)),
                            rsa.size_n)

\* C29: encrypt splits its input of L bytes into ceil(L / 30) groups and
\* emits exactly size_n bytes for each, so the ciphertext has
\* ceil(L / 30) * size_n bytes; decrypt splits the ciphertext into the same
\* number of size_n-byte chunks and pads every decrypted chunk but the last
\* to 30 bytes.
C29_ChunkLayout ==
    (rsa.status = "ready" /\ rsa.phase \in {"encrypted", "decrypted"})
    => LET groups == (Len(rsa.data) + RSA_CHUNK - 1) \div RSA_CHUNK
       IN  /\ Len(rsa.ct) = groups * rsa.size_n
           /\ Len(get_exact_chunks(rsa.ct, rsa.size_n)) = groups
           /\ rsa.phase = "decrypted"
                 => /\ Len(rsa.pt) > RSA_CHUNK * (groups - 1)
                    /\ Len(rsa.pt) <= RSA_CHUNK * (groups - 1) + rsa.size_n

\* C30: for every bitlength and exponent that pass check_input_params,
\* generate_keypair eventually returns, with a key where p # q, p > q, p and
\* q have floor(bitlength / 2) bits, bits(p * q) = bitlength and
\* gcd(e, (p - 1)(q - 1)) = 1.
C30_KeygenTerminates ==
    /\ [](rsa.status = "ready"
            => /\ rsa.key.p # rsa.key.q /\ rsa.key.p > rsa.key.q
               /\ Bits(rsa.key.p) = rsa.bitlength \div 2
               /\ Bits(rsa.key.q) = rsa.bitlength \div 2
               /\ Bits(rsa.key.p * rsa.key.q) = rsa.bitlength
               /\ Gcd(rsa.key.e, (rsa.key.p - 1) * (rsa.key.q - 1)) = 1)
    /\ (rsa.status = "generating") ~> (rsa.status = "ready")

\* C16: after generate_keypair, size_n = ceil(bits(n) / 8), the number of
\* bytes needed to hold n, so the little-endian encoding of every value in
\* [0, n) is at most size_n bytes long, also when bits(n) is not a multiple
\* of 8.
C16_SizeN ==
    rsa.status = "ready"
    => /\ rsa.size_n = (Bits(rsa.n) + 7) \div 8
       /\ Len(to_bytes_le(rsa.n - 1)) <= rsa.size_n

(***************************************************************************)
(* utils/primes.rs: discrete-log primes, as key_exchange uses them.        *)
(***************************************************************************)

\* is_discrete_log_safe: q = (candidate >> 1) - 1; an odd q goes to
\* is_large_prime, an even q is refused.  Some draws make it return true.
is_discrete_log_safe_possible(candidate) ==
    LET q == (candidate \div 2) - 1
    IN  q >= 0 /\ q % 2 # 0 /\ is_large_prime_possible(q)

\* is_discrete_log_safe(9) reaches miller_rabin(3), whose basis range [2, 1)
\* is empty: gen_biguint_range panics.
is_discrete_log_safe_panics(candidate) ==
    LET q == (candidate \div 2) - 1
    IN  /\ q = 3
        /\ \E random \in 0..(q - 1) : fermat_little(q, random)

\* The values generate_discrete_log_prime(bitlength) can return.
generate_discrete_log_prime(bitlength) ==
    { c \in RandomCandidates(bitlength) :
        generate_accepts(bitlength, c) /\ is_discrete_log_safe_possible(c) }

generate_discrete_log_prime_panics(bitlength) ==
    \E c \in RandomCandidates(bitlength) :
        generate_accepts(bitlength, c) /\ is_discrete_log_safe_panics(c)

(***************************************************************************)
(* key_exchange/diffie_hellman.rs                                          *)
(***************************************************************************)

\* The bit length handed to setup, and the number of generate_shared_key
\* calls each party makes.
DHBits == 5
MaxSharedKeyCalls == 3

\* DiffieHellman::new()
DHNew ==
    [p |-> 0, g |-> 0, gx |-> 0, x |-> 0, px |-> 0, v_i |-> 0, v_f |-> 0,
     gy |-> 0, shared_key |-> 0, calls |-> 0]

new_from_peer(peer_p, peer_g, peer_gx) ==
    [DHNew EXCEPT !.p = peer_p, !.g = peer_g, !.gy = peer_gx]

check_range(party, parameter) ==
    parameter >= 2 /\ parameter <= party.p - 2

\* `while x >= p { x = x >> 1 }`
RECURSIVE shr_below(_, _)
shr_below(v, bound) == IF v >= bound THEN shr_below(v \div 2, bound) ELSE v

\* generate_private_x for the draw that leaves its loop.
generate_private_x(party, x_draw) == shr_below(x_draw, party.p)

\* setup: g, p and gy are drawn only when they are still zero; the draws are
\* those of the loop iterations that leave the loops.
setup_params(party, g_draw, p_draw) ==
    [party EXCEPT !.g = IF party.g = 0 THEN g_draw ELSE party.g,
                  !.p = IF party.p = 0 THEN p_draw ELSE party.p]

setup_returns(party, g_draw, p_draw, gy_draw, x_draw, gx_draw) ==
    LET q  == setup_params(party, g_draw, p_draw)
        x  == generate_private_x(q, x_draw)
        gx == ModPow(q.g, x, q.p)
    IN  /\ party.gy = 0 => check_range(q, gy_draw)
        /\ check_range(q, x)
        /\ ~check_range(q, gx) => check_range(q, gx_draw)

setup(party, g_draw, p_draw, gy_draw, x_draw, gx_draw) ==
    LET q  == setup_params(party, g_draw, p_draw)
        x  == generate_private_x(q, x_draw)
        gx == ModPow(q.g, x, q.p)
    IN  [q EXCEPT !.gy = IF party.gy = 0 THEN gy_draw ELSE party.gy,
                  !.x = x,
                  !.gx = IF check_range(q, gx) THEN gx ELSE gx_draw]

\* update_blinding; drawn is the value of gen_biguint in the draw that leaves
\* the loop of the third branch (a draw of 1 leaves it after eleven rounds).
update_blinding(party, drawn) ==
    IF party.px # party.x
    THEN [party EXCEPT !.px = party.x, !.v_i = 1, !.v_f = 1]
    ELSE IF party.v_i # 1
    THEN LET v_i == ModPow(party.v_i, party.v_i, party.p)
         IN  [party EXCEPT !.v_i = v_i, !.v_f = ModPow(v_i, party.v_f, party.p)]
    ELSE LET v_i == shr_below(generate_random_biguint(drawn), party.p)
         IN  [party EXCEPT !.v_i = v_i,
                           !.v_f = ModPow(modular_inverse(v_i, party.p),
                                          party.x, party.p)]

dh_generate_shared_key(party, drawn, peer_gx) ==
    LET b   == update_blinding(party, drawn)
        key == (peer_gx * b.v_i) % b.p
    IN  [b EXCEPT !.shared_key = (ModPow(key, b.x, b.p) * b.v_f) % b.p,
                  !.calls = party.calls + 1]

BlindingDrawsDH(party) == 0..(Pow2(Bits(party.p) - 1) - 1)

\* A = DiffieHellman::new().setup(DHBits)
SetupA(g_draw, p_draw, gy_draw, x_draw, gx_draw) ==
    /\ setup_returns(DHNew, g_draw, p_draw, gy_draw, x_draw, gx_draw)
    /\ dh' = [dh EXCEPT !.status = "A_ready",
                        !.A = setup(DHNew, g_draw, p_draw, gy_draw, x_draw, gx_draw)]

\* B = DiffieHellman::new_from_peer(A.p, A.g, A.gx).setup(DHBits)
SetupB(x_draw, gx_draw) ==
    LET peer == new_from_peer(dh.A.p, dh.A.g, dh.A.gx)
    IN  /\ setup_returns(peer, 0, 0, 0, x_draw, gx_draw)
        /\ dh' = [dh EXCEPT !.status = "ready",
                            !.B = setup(peer, 0, 0, 0, x_draw, gx_draw)]

\* A draw inside setup reaches miller_rabin(3): the process panics.
SetupPanics ==
    /\ generate_discrete_log_prime_panics(DHBits)
    /\ dh' = [dh EXCEPT !.status = "panic"]

\* A.generate_shared_key(&mut generator, &B.gx)
SharedKeyA(drawn) ==
    dh' = [dh EXCEPT !.A = dh_generate_shared_key(dh.A, drawn, dh.B.gx)]

\* B.generate_shared_key(&mut generator, &A.gx)
SharedKeyB(drawn) ==
    dh' = [dh EXCEPT !.B = dh_generate_shared_key(dh.B, drawn, dh.A.gx)]

InitDH ==
    /\ dh = [status |-> "new", A |-> DHNew, B |-> DHNew]
    /\ primes = PrimesIdle /\ rsa = [status |-> "idle"] /\ ec = [status |-> "idle"]

NextDH ==
    /\ UNCHANGED <<primes, rsa, ec>>
    /\ \/ /\ dh.status = "new"
          /\ \E g_draw \in generate_discrete_log_prime(DHBits),
                p_draw \in generate_discrete_log_prime(DHBits),
                gy_draw \in generate_discrete_log_prime(DHBits),
                x_draw \in generate_discrete_log_prime(DHBits),
                gx_draw \in generate_discrete_log_prime(DHBits) :
                SetupA(g_draw, p_draw, gy_draw, x_draw, gx_draw)
       \/ /\ dh.status = "A_ready"
          /\ \E x_draw \in generate_discrete_log_prime(DHBits),
                gx_draw \in generate_discrete_log_prime(DHBits) :
                SetupB(x_draw, gx_draw)
       \/ /\ dh.status \in {"new", "A_ready"}
          /\ SetupPanics
       \/ /\ dh.status = "ready"
          /\ dh.A.calls < MaxSharedKeyCalls
          /\ \E drawn \in BlindingDrawsDH(dh.A) : SharedKeyA(drawn)
       \/ /\ dh.status = "ready"
          /\ dh.B.calls < MaxSharedKeyCalls
          /\ \E drawn \in BlindingDrawsDH(dh.B) : SharedKeyB(drawn)

SpecDH == InitDH /\ [][NextDH]_vars

(***************************************************************************)
(* Properties of Diffie-Hellman.                                           *)
(***************************************************************************)

\* Both parties hold the public values the protocol intends: p is prime and
\* each gx is g^x mod p for its owner's x.
DHHonest ==
    /\ dh.status = "ready"
    /\ IsPrime(dh.A.p)
    /\ dh.A.gx = ModPow(dh.A.g, dh.A.x, dh.A.p)
    /\ dh.B.gx = ModPow(dh.B.g, dh.B.x, dh.B.p)

\* C4: A and B, B built with new_from_peer from A's (p, g, gx) and both set
\* up, derive the same value A.generate_shared_key(B.gx) =
\* B.generate_shared_key(A.gx), after any number of calls on either side in
\* any interleaving.  Stated here for a prime p and public values gx = g^x.
C4_SharedKeySymmetry ==
    (DHHonest /\ dh.A.calls >= 1 /\ dh.B.calls >= 1)
    => dh.A.shared_key = dh.B.shared_key

\* C5: every generate_shared_key(peer_gx) call on a set-up DiffieHellman, the
\* first and every later one with the same x, returns and stores exactly
\* peer_gx^x mod p.  Stated here for a prime p.
C5_SharedKeyValue ==
    (dh.status = "ready" /\ IsPrime(dh.A.p))
    => /\ dh.A.calls >= 1 => dh.A.shared_key = ModPow(dh.B.gx, dh.A.x, dh.A.p)
       /\ dh.B.calls >= 1 => dh.B.shared_key = ModPow(dh.A.gx, dh.B.x, dh.B.p)

\* C18: every value p returned by generate_discrete_log_prime is a
\* discrete-log-safe prime: p is prime and (p - 1) / 2 is prime.  The prime p
\* of party A is such a returned value.
C18_DiscreteLogSafe ==
    dh.status \in {"A_ready", "ready"}
    => IsPrime(dh.A.p) /\ IsPrime((dh.A.p - 1) \div 2)

\* C21: after every generate_shared_key call on a set-up DiffieHellman (after
\* the first use, after a fresh draw and after each re-use update) the
\* blinding pair satisfies v_f * v_i^x = 1 (mod p).  Stated here for a prime p.
C21_BlindingInverse ==
    (dh.status = "ready" /\ IsPrime(dh.A.p))
    => /\ dh.A.calls >= 1
            => (dh.A.v_f * ModPow(dh.A.v_i, dh.A.x, dh.A.p)) % dh.A.p = 1
       /\ dh.B.calls >= 1
            => (dh.B.v_f * ModPow(dh.B.v_i, dh.B.x, dh.B.p)) % dh.B.p = 1

\* One generate_shared_key call takes the party from before to after.
BlindingScheduleStep(before, after) ==
    after.calls = before.calls + 1
    => /\ before.calls = 0
            => after.px = before.x /\ after.v_i = 1 /\ after.v_f = 1
       /\ before.calls = 1
            => 2 <= after.v_i /\ after.v_i <= before.p - 1
       /\ before.calls >= 2
            => /\ after.v_i = (before.v_i * before.v_i) % before.p
               /\ after.v_f = (before.v_f * before.v_f) % before.p
       /\ after.v_i # 1 <=> before.calls >= 1

\* C22: in a run new -> setup -> repeated generate_shared_key with unchanged
\* x, the first call sets px = x and v_i = v_f = 1, the second draws a fresh
\* v_i in [2, p - 1], every later call squares v_i and v_f modulo p; blinding
\* is in use (v_i # 1) exactly when x is re-used.
C22_BlindingSchedule ==
    [][dh.status = "ready" /\ dh'.status = "ready"
        => /\ BlindingScheduleStep(dh.A, dh'.A)
           /\ BlindingScheduleStep(dh.B, dh'.B)]_vars

\* C26: after setup returns, with fresh parameters (A) or with parameters
\* inherited through new_from_peer (B), gx = g^x mod p for the stored x, with
\* 2 <= x <= p - 2 and 2 <= gx <= p - 2.
C26_PublicValue ==
    /\ dh.status \in {"A_ready", "ready"}
          => /\ dh.A.gx = ModPow(dh.A.g, dh.A.x, dh.A.p)
             /\ check_range(dh.A, dh.A.x) /\ check_range(dh.A, dh.A.gx)
    /\ dh.status = "ready"
          => /\ dh.B.gx = ModPow(dh.B.g, dh.B.x, dh.B.p)
             /\ check_range(dh.B, dh.B.x) /\ check_range(dh.B, dh.B.gx)

(***************************************************************************)
(* utils/ecc_curves.rs: curve groups, points and the field reductions.     *)
(* The registry is scaled to one short-Weierstrass curve and one           *)
(* Montgomery curve whose field elements fit the checker's integers.       *)
(***************************************************************************)

NoY == -1

\* ECPPoint::new(x, y): an affine point, z = 1.
ECPPoint(x, y) == [x |-> x, y |-> y, z |-> 1]

\* y^2 = x^3 + 4x + 4 over F_103: prime order 113, base point (1, 3).
WeierstrassGroup ==
    [shape |-> "ShortWeierstrass", p |-> 103, a |-> 4, b |-> 4, n |-> 113,
     nbits |-> 7, g |-> ECPPoint(1, 3), t |-> <<>>, t_size |-> 0]

\* y^2 = x^3 + 6x^2 + x over F_32749, base point x = 9; the subgroup order
\* is 4133 and private scalars have nbits = 15 bits.
MontgomeryGroup ==
    [shape |-> "Montgomery", p |-> 32749, a |-> 6, b |-> 0, n |-> 4133,
     nbits |-> 15, g |-> ECPPoint(9, NoY), t |-> <<>>, t_size |-> 0]

ECPGroup(curve) == IF curve = "Montgomery" THEN MontgomeryGroup ELSE WeierstrassGroup

get_curve_shape(group) == group.shape

\* mod_p, mod_reduce and mod_increase bring a signed value into [0, p).
mod_p(group, v) == v % group.p

mod_reduce(group, v) == v % group.p

mod_increase(group, v) == v % group.p

(***************************************************************************)
(* utils/primes.rs: modular_inverse_int, on signed integers.               *)
(***************************************************************************)

\* BigInt `/` and `%` truncate towards zero.
TruncDiv(a, b) ==
    LET q == (IF a < 0 THEN -a ELSE a) \div (IF b < 0 THEN -b ELSE b)
    IN  IF (a < 0) = (b < 0) THEN q ELSE -q

TruncRem(a, b) == a - b * TruncDiv(a, b)

RECURSIVE ee_loop_int(_)
ee_loop_int(s) ==
    IF s.mn[2] = 0 THEN s.xy[1]
    ELSE ee_loop_int(
             [xy |-> <<s.xy[2], s.xy[1] - TruncDiv(s.mn[1], s.mn[2]) * s.xy[2]>>,
              mn |-> <<s.mn[2], TruncRem(s.mn[1], s.mn[2])>>])

modular_inverse_int(a, modulus) ==
    lift_negative(ee_loop_int([mn |-> <<modulus, a>>, xy |-> <<0, 1>>]), modulus)

(***************************************************************************)
(* utils/jacobian_coords.rs                                                *)
(***************************************************************************)

Abs(v) == IF v < 0 THEN -v ELSE v

\* normalize_point that scales X and Y but leaves Z as it was (a deliberately
\* wrong variant, used to see that C15 depends on the result being affine).
jacobian_normalize_point_keeps_z(group, point) ==
    IF point.z = 0 THEN point
    ELSE LET z_i  == modular_inverse_int(point.z, group.p)
             zz_i == mod_p(group, z_i * z_i)
             y_i  == mod_p(group, point.y * zz_i)
         IN  [x |-> mod_p(group, point.x * zz_i),
              y |-> Abs(mod_p(group, y_i * z_i)),
              z |-> point.z]

jacobian_normalize_point(group, point) ==
    IF point.z = 0 THEN point
    ELSE LET z_i  == modular_inverse_int(point.z, group.p)
             zz_i == mod_p(group, z_i * z_i)
             y_i  == mod_p(group, point.y * zz_i)
         IN  [x |-> mod_p(group, point.x * zz_i),
              y |-> Abs(mod_p(group, y_i * z_i)),
              z |-> 1]

invert_point(group, point) ==
    IF point.y # 0 THEN [point EXCEPT !.y = group.p - point.y] ELSE point

jacobian_double_point(group, P) ==
    LET S0 == mod_p(group, P.x * P.x)
        M0 == mod_reduce(group, S0 * 3)
        M  == IF group.a # 0
              THEN LET S1 == mod_p(group, P.z * P.z)
                       T1 == mod_p(group, S1 * S1)
                       S2 == mod_p(group, T1 * group.a)
                   IN  mod_reduce(group, M0 + S2)
              ELSE M0
        T2 == mod_reduce(group, mod_p(group, P.y * P.y) * 2)
        S3 == mod_reduce(group, mod_p(group, P.x * T2) * 2)
        U0 == mod_reduce(group, mod_p(group, T2 * T2) * 2)
        T3 == mod_increase(group, mod_increase(group, mod_p(group, M * M) - S3) - S3)
        S4 == mod_increase(group, S3 - T3)
        S5 == mod_increase(group, mod_p(group, S4 * M) - U0)
        U1 == mod_reduce(group, mod_p(group, P.y * P.z) * 2)
    IN  [x |-> T3, y |-> S5, z |-> U1]

\* add: the result of normalize_point on a Q with z # 1 is dropped, so Q is
\* used as it came.
jacobian_add(group, P, Q) ==
    IF P.z = 0 THEN Q
    ELSE IF Q.z = 0 THEN P
    ELSE LET t_1a == mod_p(group, P.z * P.z)
             t_2a == mod_p(group, t_1a * P.z)
             t_1b == mod_p(group, t_1a * Q.x)
             t_2b == mod_p(group, t_2a * Q.y)
             t_1  == mod_increase(group, t_1b - P.x)
             t_2  == mod_increase(group, t_2b - P.y)
             z    == mod_p(group, P.z * t_1)
             t_3a == mod_p(group, t_1 * t_1)
             t_4a == mod_p(group, t_3a * t_1)
             t_3b == mod_p(group, t_3a * P.x)
             t_1c == mod_reduce(group, t_3b * 2)
             x0   == mod_p(group, t_2 * t_2)
             x1   == mod_increase(group, x0 - t_1c)
             x    == mod_increase(group, x1 - t_4a)
             t_3c == mod_increase(group, t_3b - x)
             t_3d == mod_p(group, t_3c * t_2)
             t_4b == mod_p(group, t_4a * P.y)
         IN  [x |-> x, y |-> mod_increase(group, t_3d - t_4b), z |-> z]

\* randomize_point that multiplies Y by l^2 instead of l^3 (a deliberately
\* wrong variant, used to see that C12 depends on the powers of l).
jacobian_randomize_point_square_y(group, P, l_draw) ==
    LET l == shr_below(l_draw, group.p)
    IN  [x |-> mod_p(group, P.x * (l * l)),
         y |-> mod_p(group, P.y * (l * l)),
         z |-> mod_p(group, P.z * l)]

\* randomize_point with l the value of primes::generate(p.bits()).
jacobian_randomize_point(group, P, l_draw) ==
    LET l == shr_below(l_draw, group.p)
    IN  [x |-> mod_p(group, P.x * (l * l)),
         y |-> mod_p(group, P.y * (l * l * l)),
         z |-> mod_p(group, P.z * l)]

(***************************************************************************)
(* utils/comb_method.rs                                                    *)
(***************************************************************************)

ECP_WINDOW_SIZE == 6
MAX_PRECOMPUTED_POINTS == 33
FIXED_POINT_OPT == TRUE

get_window_size(nbits, p_equals_g) ==
    LET w0 == IF nbits >= 384 THEN 5 ELSE 4
        w1 == IF FIXED_POINT_OPT /\ p_equals_g THEN w0 + 1 ELSE w0
        w2 == IF w1 > ECP_WINDOW_SIZE THEN ECP_WINDOW_SIZE ELSE w1
    IN  IF w2 >= nbits THEN 2 ELSE w2

\* T is a Rust vector indexed from 0; the model keeps it as a sequence and
\* reads and writes entry i at position i + 1.
TGet(T, i) == T[i + 1]

TSet(T, i, point) == [T EXCEPT ![i + 1] = point]

RECURSIVE double_times(_, _)
double_times(group, s) ==
    IF s.count = 0 THEN s.calc_value
    ELSE double_times(group,
             [calc_value |-> jacobian_double_point(group, s.calc_value),
              count |-> s.count - 1])

\* precompute, first loop: `while i < (1 << (w - 1))` with its counter k; the
\* loop state s holds T, i and k.
RECURSIVE precompute_doublings(_, _, _, _)
precompute_doublings(group, w, d, s) ==
    IF s.i >= Pow2(w - 1) THEN s.T
    ELSE LET T1 == TSet(s.T, s.i, TGet(s.T, s.i \div 2))
             calc_value == double_times(group, [calc_value |-> TGet(T1, s.i), count |-> d])
         IN  precompute_doublings(group, w, d,
                 [T |-> TSet(T1, s.k, calc_value), i |-> s.i * 2, k |-> s.k + 1])

normalize_many(group, points) ==
    [i \in 1..Len(points) |-> jacobian_normalize_point(group, points[i])]

\* precompute, second loop: the inner `while j > 0` on the state s of T, j
\* and k.
RECURSIVE precompute_additions_inner(_, _, _)
precompute_additions_inner(group, i, s) ==
    IF s.j = 0 THEN s
    ELSE LET store(sum) == TSet(TSet(s.T, i + s.j, sum), s.k, sum)
         IN  precompute_additions_inner(group, i,
                 [T |-> store(jacobian_add(group, TGet(s.T, s.j), TGet(s.T, i))),
                  j |-> s.j - 1, k |-> s.k + 1])

\* The outer `while i < (1 << (w - 1))` on the state s of T, i and k.
RECURSIVE precompute_additions(_, _, _)
precompute_additions(group, w, s) ==
    IF s.i >= Pow2(w - 1) THEN s.T
    ELSE LET outer(r) ==
                 precompute_additions(group, w, [T |-> r.T, i |-> s.i * 2, k |-> r.k])
         IN  outer(precompute_additions_inner(group, s.i,
                       [T |-> s.T, j |-> s.i, k |-> s.k]))

precompute(group, P, w, d) ==
    LET T0 == [i \in 1..(MAX_PRECOMPUTED_POINTS + 1) |-> ECPPoint(0, 0)]
        T1 == precompute_doublings(group, w, d, [T |-> TSet(T0, 0, P), i |-> 1, k |-> 1])
        T2 == normalize_many(group, T1)
        T3 == precompute_additions(group, w, [T |-> T2, i |-> 1, k |-> 1])
    IN  normalize_many(group, T3)

\* The loop of core_multiplication adding the base point g instead of P (a
\* deliberately wrong variant, used to see that C6 depends on the point that
\* is multiplied).
RECURSIVE core_loop_adds_generator(_, _, _)
core_loop_adds_generator(group, P, s) ==
    IF s.i = 0 THEN s.R
    ELSE core_loop_adds_generator(group, P,
             [R |-> jacobian_add(group, jacobian_double_point(group, s.R), group.g),
              i |-> s.i - 1])

\* The loop of core_multiplication: `while i > 0` doubles R and adds P; the
\* loop state s holds R and i.
RECURSIVE core_loop(_, _, _)
core_loop(group, P, s) ==
    IF s.i = 0 THEN s.R
    ELSE core_loop(group, P,
             [R |-> jacobian_add(group, jacobian_double_point(group, s.R), P),
              i |-> s.i - 1])

core_multiplication(group, P, m, l_draw) ==
    LET R0 == jacobian_randomize_point(group, [ECPPoint(0, 0) EXCEPT !.z = 1], l_draw)
    IN  core_loop(group, P, [R |-> R0, i |-> Bits(m)])

\* The calls of jacobian_coords::add that the loop of core_multiplication
\* makes, in order: the accumulator R and the point Q handed to add, and the
\* sum it returns.
RECURSIVE core_add_calls(_, _, _)
core_add_calls(group, P, s) ==
    IF s.i = 0 THEN <<>>
    ELSE LET R   == jacobian_double_point(group, s.R)
             sum == jacobian_add(group, R, P)
         IN  <<[R |-> R, Q |-> P, sum |-> sum]>>
             \o core_add_calls(group, P, [R |-> sum, i |-> s.i - 1])

\* The add calls of core_multiplication inside multiply(group, m, P).
comb_add_calls(group, m, P, l_draw) ==
    LET M  == IF m % 2 = 0 THEN group.n - m ELSE m
        R0 == jacobian_randomize_point(group, [ECPPoint(0, 0) EXCEPT !.z = 1], l_draw)
    IN  core_add_calls(group, P, [R |-> R0, i |-> Bits(M)])

\* multiply that stores the table and its size for every P, not only for
\* P = g (a deliberately wrong variant, used to see that C28 depends on the
\* test of p_equals_g).
comb_multiply_caches_any_point(group, m, P, l_draw) ==
    LET p_equals_g == P.x = group.g.x /\ P.y = group.g.y
        w       == get_window_size(group.nbits, p_equals_g)
        T       == IF p_equals_g /\ FIXED_POINT_OPT
                   THEN precompute(group, P, w, (group.nbits + w - 1) \div w)
                   ELSE group.t
        M       == IF m % 2 = 0 THEN group.n - m ELSE m
        R       == IF m % 2 = 0
                   THEN invert_point(group, core_multiplication(group, P, M, l_draw))
                   ELSE core_multiplication(group, P, M, l_draw)
    IN  <<[group EXCEPT !.t = T, !.t_size = Pow2(w - 1)],
          jacobian_normalize_point(group, R)>>

\* multiply returns <<group, R>>: the group's table t is replaced when P = g.
comb_multiply(group, m, P, l_draw) ==
    LET p_equals_g == P.x = group.g.x /\ P.y = group.g.y
        m_is_even  == m % 2 = 0
        w       == get_window_size(group.nbits, p_equals_g)
        pre_len == Pow2(w - 1)
        d       == (group.nbits + w - 1) \div w
        T       == IF p_equals_g /\ FIXED_POINT_OPT
                   THEN precompute(group, P, w, d) ELSE group.t
        M       == IF m_is_even THEN group.n - m ELSE m
        invert_if_even(R0) == IF m_is_even THEN invert_point(group, R0) ELSE R0
        R       == invert_if_even(core_multiplication(group, P, M, l_draw))
        group1  == IF p_equals_g /\ FIXED_POINT_OPT
                   THEN [group EXCEPT !.t = T, !.t_size = pre_len] ELSE group
    IN  <<group1, jacobian_normalize_point(group, R)>>

(***************************************************************************)
(* utils/encoding.rs                                                       *)
(***************************************************************************)

\* BitVec::from_bytes: bit k of the vector is bit 7 - (k mod 8) of byte
\* k div 8.  The model keeps bit k at position k + 1.
bitvec_from_bytes(bytes) ==
    [k \in 1..(8 * Len(bytes)) |->
        (bytes[((k - 1) \div 8) + 1] \div Pow2(7 - ((k - 1) % 8))) % 2 = 1]

RECURSIVE bitvec_byte(_, _, _)
bitvec_byte(bv, byte, bit) ==
    IF bit = 8 THEN 0
    ELSE (IF bv[8 * byte + bit + 1] THEN Pow2(7 - bit) ELSE 0)
         + bitvec_byte(bv, byte, bit + 1)

bitvec_to_bytes(bv) == [b \in 1..(Len(bv) \div 8) |-> bitvec_byte(bv, b - 1, 0)]

\* EndianOrdering::Little on both sides.
biguint_to_bitvec(input) == bitvec_from_bytes(to_bytes_le(input))

bitvec_to_biguint(input) == from_bytes_le(bitvec_to_bytes(input))

bitvec_set(bv, i, value) == [bv EXCEPT ![i + 1] = value]

(***************************************************************************)
(* utils/montgomery_ladder.rs                                              *)
(***************************************************************************)

\* The products below are reduced as they are formed; on BigInt the code
\* reduces once at the end, with the same result for non-negative operands.
montgomery_double_point(group, point) ==
    LET q == group.p
        x_squared == MulMod(point.x, point.x, q)
        z_squared == MulMod(point.z, point.z, q)
        xz        == MulMod(point.x, point.z, q)
        diff      == (x_squared - z_squared) % q
        inner     == (x_squared + MulMod(group.a % q, xz, q) + z_squared) % q
    IN  [x |-> MulMod(diff, diff, q),
         y |-> NoY,
         z |-> MulMod((4 * xz) % q, inner, q)]

montgomery_add_points(group, first, second, gx) ==
    LET q == group.p
        x_mult == (MulMod(second.x, first.x, q) - MulMod(second.z, first.z, q)) % q
        z_mult == (MulMod(second.x, first.z, q) - MulMod(second.z, first.x, q)) % q
    IN  [x |-> (4 * MulMod(x_mult, x_mult, q)) % q,
         y |-> NoY,
         z |-> MulMod((4 * MulMod(z_mult, z_mult, q)) % q, gx % q, q)]

\* randomize_point with drawn the value of gen_biguint(p.bits() - 1).
montgomery_randomize_point(group, point, drawn) ==
    LET l == shr_below(generate_random_biguint(drawn), group.p)
    IN  [point EXCEPT !.x = mod_p(group, MulMod(point.x, l, group.p)),
                      !.z = mod_p(group, MulMod(point.z, l, group.p))]

invert(group, coordinate) == ModPow(coordinate, group.p - 2, group.p)

montgomery_normalize_point(group, point) ==
    [point EXCEPT !.x = Abs(mod_p(group, point.x * point.z)), !.z = 1]

\* The bit indices the loop of multiply reads, in order: i starts at
\* m.bits() and `i >>= 1` ends each round.
RECURSIVE ladder_indices(_)
ladder_indices(i) == IF i = 0 THEN <<>> ELSE <<i>> \o ladder_indices(i \div 2)

\* The loop of multiply: `while i > 0 { ...; i >>= 1 }`.  R, RP and PX keep
\* the values they had before the loop.
RECURSIVE ladder_loop(_, _, _, _, _, _)
ladder_loop(group, m, R, RP, PX, s) ==
    IF s.i = 0 THEN s.point_selection
    ELSE LET d_i == (m \div Pow2(s.i)) % 2
             other == ((d_i + 1) % 2) + 1
             ps1 == [s.point_selection EXCEPT
                        ![other] = montgomery_add_points(group, R, RP, PX)]
             ps2 == [ps1 EXCEPT
                        ![d_i + 1] = montgomery_double_point(group, ps1[d_i + 1])]
         IN  ladder_loop(group, m, R, RP, PX,
                         [point_selection |-> ps2, i |-> s.i \div 2])

montgomery_multiply(group, m, P, drawn) ==
    LET RP == P
        R  == montgomery_randomize_point(group, montgomery_double_point(group, RP), drawn)
        ps == ladder_loop(group, m, R, RP, P.x,
                          [point_selection |-> <<R, RP>>, i |-> Bits(m)])
        invert_z    == invert(group, ps[1].z)
        final_value == MulMod(ps[1].x, invert_z, group.p)
    IN  montgomery_normalize_point(group, ECPPoint(final_value, NoY))

(***************************************************************************)
(* utils/ecc.rs                                                            *)
(***************************************************************************)

\* Draws of the random source that the elliptic-curve specification
\* enumerates: candidates of primes::generate(nbits) for a Montgomery scalar
\* lie in [2^(nbits-1), 2^(nbits-1) + 2 * MaxScalarDraw + 1], and the draws
\* that blind a point are at most MaxBlindDraw.
MaxScalarDraw == 100
MaxBlindDraw == 7

\* ECPKeypair::new(curve)
ECPKeypairNew(curve) == [group |-> ECPGroup(curve), d |-> 0, q |-> ECPPoint(0, 0)]

\* The values primes::generate(nbits) hands to get_valid_private_value.
MontgomeryPrivateDraws ==
    { c \in { Pow2(MontgomeryGroup.nbits - 1) + 2 * k + 1 : k \in 0..MaxScalarDraw } :
        generate_accepts(MontgomeryGroup.nbits, c) }

WeierstrassPrivateDraws ==
    { c \in RandomCandidates(WeierstrassGroup.nbits) :
        generate_accepts(WeierstrassGroup.nbits, c) }

PrivateDraws(curve) ==
    IF curve = "Montgomery" THEN MontgomeryPrivateDraws ELSE WeierstrassPrivateDraws

\* The values primes::generate(p.bits()) hands to jacobian randomize_point.
BlindDraws ==
    { c \in RandomCandidates(Bits(WeierstrassGroup.p)) :
        c <= MaxBlindDraw /\ generate_accepts(Bits(WeierstrassGroup.p), c) }

\* The values gen_biguint(p.bits() - 1) hands to montgomery randomize_point.
LadderDraws == 0..MaxBlindDraw

\* get_valid_private_value, Montgomery arm, after the loop that waits for a
\* draw of exactly nbits bits.
montgomery_private_value(group, d) ==
    LET b  == Bits(d) - 1
        d1 == IF b > group.nbits THEN d \div Pow2(b - group.nbits) ELSE d
        v0 == biguint_to_bitvec(d1)
        v1 == IF b > group.nbits THEN v0 ELSE bitvec_set(v0, group.nbits, TRUE)
        v2 == bitvec_set(bitvec_set(bitvec_set(v1, 0, FALSE), 1, FALSE), 2, FALSE)
    IN  bitvec_to_biguint(v2)

\* get_valid_private_value, short-Weierstrass arm, one iteration of its loop.
weierstrass_private_value(group, d) ==
    LET n_size == (group.nbits + 7) \div 8
    IN  d \div Pow2(8 * n_size - group.nbits)

\* The draw d_draw leaves the loop of get_valid_private_value.
private_draw_accepted(group, d_draw) ==
    IF get_curve_shape(group) = "Montgomery"
    THEN Bits(d_draw) = group.nbits
    ELSE LET d == weierstrass_private_value(group, d_draw)
         IN  ~(d < 1 \/ d >= group.n)

get_valid_private_value(group, d_draw) ==
    IF get_curve_shape(group) = "Montgomery"
    THEN montgomery_private_value(group, d_draw)
    ELSE weierstrass_private_value(group, d_draw)

\* ECPKeypair::multiply, returning <<group, R>>; l_draw blinds the point.
multiply(group, d, l_draw) ==
    IF get_curve_shape(group) = "Montgomery"
    THEN <<group, montgomery_multiply(group, d, group.g, l_draw)>>
    ELSE comb_multiply(group, d, group.g, l_draw)

multiply_point(group, P, m, l_draw) ==
    IF get_curve_shape(group) = "Montgomery"
    THEN montgomery_multiply(group, m, P, l_draw)
    ELSE core_multiplication(group, P, m, l_draw)

add_points(group, P, R) ==
    IF get_curve_shape(group) = "Montgomery"
    THEN montgomery_add_points(group, P, R, group.g.x)
    ELSE jacobian_add(group, P, R)

ecc_check_private_key(keypair) ==
    IF get_curve_shape(keypair.group) = "Montgomery"
    THEN LET d_bit_vec == biguint_to_bitvec(keypair.d)
         IN  ~(\/ d_bit_vec[1] \/ d_bit_vec[2] \/ d_bit_vec[3]
               \/ Bits(keypair.d) # keypair.group.nbits)
    ELSE ~(keypair.d < 1) /\ ~(keypair.d >= keypair.group.n)

check_weierstrass_public_key(group, point) ==
    /\ ~(point.x < 0 \/ point.y < 0 \/ point.x >= group.p \/ point.y >= group.p)
    /\ LET y_squared == mod_p(group, point.y * point.y)
           rhs0 == mod_p(group, point.x * point.x)
           rhs1 == mod_reduce(group, rhs0 + group.a)
           rhs2 == mod_p(group, rhs1 * point.x)
           rhs  == mod_reduce(group, rhs2 + group.b)
       IN  rhs = y_squared

ecc_check_public_key(group, point) ==
    /\ point.z = 1
    /\ IF get_curve_shape(group) = "Montgomery"
       THEN ~((Bits(point.x) + 7) \div 8 > (group.nbits + 7) \div 8)
       ELSE check_weierstrass_public_key(group, point)

\* ECPKeypair::new(curve).setup(rng): <<keypair, passed>>, passed = FALSE
\* when check_public_private_keys panics.
ecc_setup(curve, d_draw, l_draw) ==
    LET k0 == ECPKeypairNew(curve)
        keypair(d, gq) == [d |-> d, group |-> gq[1], q |-> gq[2]]
        with_private(d) == keypair(d, multiply(k0.group, d, l_draw))
        checked(k1) ==
            <<k1, ecc_check_private_key(k1) /\ ecc_check_public_key(k1.group, k1.q)>>
    IN  checked(with_private(get_valid_private_value(k0.group, d_draw)))

(***************************************************************************)
(* key_exchange/ecdh.rs                                                    *)
(***************************************************************************)

\* An ECDH object that has not been built yet.
ECDHNone ==
    [created |-> FALSE, group |-> ECPGroup("ShortWeierstrass"), q |-> ECPPoint(0, 0),
     z |-> 0, peer_q |-> <<>>, keypair |-> ECPKeypairNew("ShortWeierstrass"),
     called |-> FALSE]

\* ECDH::new(curve) for a keypair that passed setup.
ECDHNew(keypair) ==
    [created |-> TRUE, group |-> keypair.group, q |-> keypair.q, z |-> 0,
     peer_q |-> <<>>, keypair |-> keypair, called |-> FALSE]

check_peer_q(party) ==
    /\ party.peer_q # <<>>
    /\ ecc_check_public_key(party.keypair.group, party.peer_q[1])

\* generate_shared_key after check_peer_q passed.
ecdh_generate_shared_key(party, l_draw) ==
    LET peer == party.peer_q[1]
        shared(gP) ==
            [party EXCEPT !.keypair.group = gP[1], !.z = gP[2].x, !.called = TRUE]
    IN  shared(IF get_curve_shape(party.group) = "Montgomery"
               THEN <<party.keypair.group,
                      montgomery_multiply(party.keypair.group, party.keypair.d, peer, l_draw)>>
               ELSE comb_multiply(party.keypair.group, party.keypair.d, peer, l_draw))

(***************************************************************************)
(* signature/ecdsa.rs                                                      *)
(***************************************************************************)

\* Messages handed to sign and verify, as byte vectors.
ECDSAMessages == {<<0>>, <<1>>, <<7>>, <<200>>}

NoSignature == [r |-> 0, s |-> 0]

\* sign: <<signature, outcome>> for the nonce draw k_draw; outcome names the
\* panic when sign does not return.
sign(keypair, message, k_draw, l_draw) ==
    LET n   == keypair.group.n
        e   == from_bytes_le(message)
        outcome(r, s) ==
            IF r = 0 THEN <<NoSignature, "Whoops on R">>
            ELSE IF s = 0 THEN <<NoSignature, "Whoops on s">>
            ELSE <<[r |-> r, s |-> s], "signed">>
        with_r(k, r) ==
            outcome(r, MulMod(modular_inverse(k, n), (e + keypair.d * r) % n, n))
        with_k(k) ==
            with_r(k, multiply_point(keypair.group, keypair.group.g, k, l_draw).x)
    IN  with_k(get_valid_private_value(keypair.group, k_draw) % n)

\* verify: "accepted" when it returns, else the panic it raises.
verify(keypair, message, signature, l_draw1, l_draw2) ==
    LET n == keypair.group.n
    IN  IF \/ signature.r < 1 \/ signature.r >= n
           \/ signature.s < 1 \/ signature.s >= n
        THEN "R or S values are either too small or too large"
        ELSE LET e   == from_bytes_le(message)
                 s_inverse == modular_inverse_int(signature.s, n)
                 u_1 == MulMod(e, s_inverse, n)
                 u_2 == MulMod(signature.r, s_inverse, n)
                 P   == multiply_point(keypair.group, keypair.group.g, u_1, l_draw1)
                 S   == multiply_point(keypair.group, keypair.q, u_2, l_draw2)
                 R   == add_points(keypair.group, P, S)
                 v   == R.x % n
             IN  IF v # signature.r THEN "Verification failed: V != r" ELSE "accepted"

(***************************************************************************)
(* The elliptic-curve specification: two ECDH parties that exchange their  *)
(* public points, or one ECDSA signer that signs and verifies.             *)
(***************************************************************************)

ECInitial(proto, curve) ==
    [proto |-> proto, curve |-> curve, status |-> "running", err |-> "",
     A |-> ECDHNone, B |-> ECDHNone,
     signer |-> ECPKeypairNew(curve), signer_ready |-> FALSE,
     message |-> <<>>, nonce |-> 0, signature |-> NoSignature, signed |-> FALSE,
     verdict |-> "none"]

\* dh = ECDH::new(curve)
NewA(d_draw, l_draw) ==
    LET built(r) == IF r[2] THEN [ec EXCEPT !.A = ECDHNew(r[1])]
                    ELSE [ec EXCEPT !.status = "panic", !.err = "KeypairInvalid"]
    IN  ec' = built(ecc_setup(ec.curve, d_draw, l_draw))

\* dh2 = ECDH::new(curve)
NewB(d_draw, l_draw) ==
    LET built(r) == IF r[2] THEN [ec EXCEPT !.B = ECDHNew(r[1])]
                    ELSE [ec EXCEPT !.status = "panic", !.err = "KeypairInvalid"]
    IN  ec' = built(ecc_setup(ec.curve, d_draw, l_draw))

\* dh.peer_q = Some(dh2.q); dh2.peer_q = Some(dh.q)
ExchangePublic ==
    ec' = [ec EXCEPT !.A.peer_q = <<ec.B.q>>, !.B.peer_q = <<ec.A.q>>]

SharedKeyECDH_A(l_draw) ==
    ec' = IF check_peer_q(ec.A)
          THEN [ec EXCEPT !.A = ecdh_generate_shared_key(ec.A, l_draw)]
          ELSE [ec EXCEPT !.status = "panic", !.err = "InvalidPeerPoint"]

SharedKeyECDH_B(l_draw) ==
    ec' = IF check_peer_q(ec.B)
          THEN [ec EXCEPT !.B = ecdh_generate_shared_key(ec.B, l_draw)]
          ELSE [ec EXCEPT !.status = "panic", !.err = "InvalidPeerPoint"]

\* ECDSA::new(curve, rng)
ECDSANew(d_draw, l_draw) ==
    LET built(r) == IF r[2] THEN [ec EXCEPT !.signer = r[1], !.signer_ready = TRUE]
                    ELSE [ec EXCEPT !.status = "panic", !.err = "KeypairInvalid"]
    IN  ec' = built(ecc_setup(ec.curve, d_draw, l_draw))

\* The nonce k that sign derives from the draw is kept in ec.nonce.
Sign(message, k_draw, l_draw) ==
    LET k == get_valid_private_value(ec.signer.group, k_draw) % ec.signer.group.n
        returned(r) ==
            IF r[2] = "signed"
            THEN [ec EXCEPT !.message = message, !.nonce = k, !.signature = r[1],
                            !.signed = TRUE]
            ELSE [ec EXCEPT !.message = message, !.nonce = k, !.status = "panic",
                            !.err = r[2]]
    IN  ec' = returned(sign(ec.signer, message, k_draw, l_draw))

Verify(l_draw1, l_draw2) ==
    LET returned(r) ==
            IF r = "accepted" THEN [ec EXCEPT !.verdict = "accepted"]
            ELSE [ec EXCEPT !.verdict = "rejected", !.status = "panic", !.err = r]
    IN  ec' = returned(verify(ec.signer, ec.message, ec.signature, l_draw1, l_draw2))

\* The draws that blind a point on the curve in use.
PointDraws ==
    IF ec.curve = "Montgomery" THEN LadderDraws ELSE BlindDraws

AcceptedPrivateDraws ==
    { c \in PrivateDraws(ec.curve) : private_draw_accepted(ECPGroup(ec.curve), c) }

InitEC ==
    /\ \E proto \in {"ECDH", "ECDSA"}, curve \in {"ShortWeierstrass", "Montgomery"} :
          ec = ECInitial(proto, curve)
    /\ primes = PrimesIdle /\ rsa = [status |-> "idle"] /\ dh = [status |-> "idle"]

NextEC ==
    /\ UNCHANGED <<primes, rsa, dh>>
    /\ ec.status = "running"
    /\ \/ /\ ec.proto = "ECDH" /\ ~ec.A.created
          /\ \E d_draw \in AcceptedPrivateDraws, l_draw \in PointDraws : NewA(d_draw, l_draw)
       \/ /\ ec.proto = "ECDH" /\ ec.A.created /\ ~ec.B.created
          /\ \E d_draw \in AcceptedPrivateDraws, l_draw \in PointDraws : NewB(d_draw, l_draw)
       \/ /\ ec.proto = "ECDH" /\ ec.A.created /\ ec.B.created /\ ec.A.peer_q = <<>>
          /\ ExchangePublic
       \/ /\ ec.proto = "ECDH" /\ ec.A.peer_q # <<>> /\ ~ec.A.called
          /\ \E l_draw \in PointDraws : SharedKeyECDH_A(l_draw)
       \/ /\ ec.proto = "ECDH" /\ ec.B.peer_q # <<>> /\ ~ec.B.called
          /\ \E l_draw \in PointDraws : SharedKeyECDH_B(l_draw)
       \/ /\ ec.proto = "ECDSA" /\ ~ec.signer_ready
          /\ \E d_draw \in AcceptedPrivateDraws, l_draw \in PointDraws : ECDSANew(d_draw, l_draw)
       \/ /\ ec.proto = "ECDSA" /\ ec.signer_ready /\ ~ec.signed
          /\ \E message \in ECDSAMessages, k_draw \in AcceptedPrivateDraws,
                l_draw \in PointDraws : Sign(message, k_draw, l_draw)
       \/ /\ ec.proto = "ECDSA" /\ ec.signed /\ ec.verdict = "none"
          /\ \E l_draw1 \in PointDraws, l_draw2 \in PointDraws : Verify(l_draw1, l_draw2)

SpecEC == InitEC /\ [][NextEC]_vars

(***************************************************************************)
(* Reference arithmetic on the short-Weierstrass curve, used only to state *)
(* properties: affine addition and scalar multiplication by double-and-add.*)
(* The point at infinity is written with z = 0.                            *)
(***************************************************************************)

AffineInfinity == [x |-> 0, y |-> 0, z |-> 0]

FieldInverse(group, v) == ModPow(v % group.p, group.p - 2, group.p)

affine_add(group, P, Q) ==
    IF P.z = 0 THEN Q
    ELSE IF Q.z = 0 THEN P
    ELSE IF P.x = Q.x /\ (P.y + Q.y) % group.p = 0 THEN AffineInfinity
    ELSE LET lambda == IF P.x = Q.x
                       THEN ((3 * P.x * P.x + group.a) * FieldInverse(group, 2 * P.y))
                            % group.p
                       ELSE ((Q.y - P.y) * FieldInverse(group, Q.x - P.x)) % group.p
             x == (lambda * lambda - P.x - Q.x) % group.p
         IN  [x |-> x, y |-> (lambda * (P.x - x) - P.y) % group.p, z |-> 1]

\* m * P by double-and-add, from the most significant bit of m down.
RECURSIVE naive_multiply(_, _, _)
naive_multiply(group, m, P) ==
    IF m = 0 THEN AffineInfinity
    ELSE LET doubled(h) == IF m % 2 = 1 THEN affine_add(group, affine_add(group, h, h), P)
                           ELSE affine_add(group, h, h)
         IN  doubled(naive_multiply(group, m \div 2, P))

\* x-only arithmetic on a Montgomery curve in projective (X : Z) form: the
\* doubling, and the differential addition of R0 and R1 whose difference is
\* the affine point of abscissa x.
xz_double(group, R) ==
    LET q  == group.p
        xx == MulMod(R.x, R.x, q)
        zz == MulMod(R.z, R.z, q)
        xz == MulMod(R.x, R.z, q)
    IN  [x |-> MulMod((xx - zz) % q, (xx - zz) % q, q),
         z |-> MulMod((4 * xz) % q, (xx + MulMod(group.a, xz, q) + zz) % q, q)]

xz_diff_add(group, R0, R1, x) ==
    LET q == group.p
        u == (MulMod(R0.x, R1.x, q) - MulMod(R0.z, R1.z, q)) % q
        v == (MulMod(R0.x, R1.z, q) - MulMod(R0.z, R1.x, q)) % q
    IN  [x |-> MulMod(u, u, q), z |-> MulMod(x, MulMod(v, v, q), q)]

\* The ladder on the bits i - 1, ..., 0 of m, with s.R1 = s.R0 + P throughout.
RECURSIVE xz_ladder(_, _, _, _, _)
xz_ladder(group, m, x, i, s) ==
    IF i = 0 THEN s.R0
    ELSE LET sum == xz_diff_add(group, s.R0, s.R1, x)
         IN  xz_ladder(group, m, x, i - 1,
                       IF (m \div Pow2(i - 1)) % 2 = 0
                       THEN [R0 |-> xz_double(group, s.R0), R1 |-> sum]
                       ELSE [R0 |-> sum, R1 |-> xz_double(group, s.R1)])

\* The affine abscissa of m * P for the point P of abscissa x; -1 stands for
\* the point at infinity.
montgomery_reference_x(group, m, x) ==
    LET R == xz_ladder(group, m, x, Bits(m), [R0 |-> [x |-> 1, z |-> 0],
                                              R1 |-> [x |-> x, z |-> 1]])
    IN  IF R.z = 0 THEN -1 ELSE MulMod(R.x, FieldInverse(group, R.z), group.p)

(***************************************************************************)
(* The curve-arithmetic specification: each action is one call of          *)
(* comb_method::multiply, or of randomize_point followed by                *)
(* normalize_point, on the short-Weierstrass curve, or one call of         *)
(* montgomery_ladder::multiply on the Montgomery curve.                    *)
(***************************************************************************)

\* The on-curve points handed to randomize_point are the first
\* MaxPointMultiple multiples of the base point, in Jacobian coordinates with
\* a z of at most MaxPointZ.
MaxPointMultiple == 12
MaxPointZ == 3

to_jacobian(group, P, z) ==
    [x |-> (P.x * z * z) % group.p, y |-> (P.y * z * z * z) % group.p, z |-> z]

CurvePoints ==
    { to_jacobian(WeierstrassGroup, naive_multiply(WeierstrassGroup, k, WeierstrassGroup.g), z) :
        k \in 1..MaxPointMultiple, z \in 1..MaxPointZ }

\* The values primes::generate(p.bits()) can hand to randomize_point.
RandomizeDraws ==
    { c \in RandomCandidates(Bits(WeierstrassGroup.p)) :
        generate_accepts(Bits(WeierstrassGroup.p), c) }

CurveIdle ==
    [op |-> "idle", m |-> 0, l |-> 0, P |-> ECPPoint(0, 0), out |-> ECPPoint(0, 0),
     adds |-> <<>>]

\* comb_method::multiply(group, m, group.g, rng)
CallCombMultiply(m, l_draw) ==
    ec' = [CurveIdle EXCEPT !.op = "multiply", !.m = m,
                            !.out = comb_multiply(WeierstrassGroup, m,
                                                  WeierstrassGroup.g, l_draw)[2],
                            !.adds = comb_add_calls(WeierstrassGroup, m,
                                                    WeierstrassGroup.g, l_draw)]

\* jacobian_coords::randomize_point(group, P, rng)
CallRandomizePoint(P, l_draw) ==
    ec' = [CurveIdle EXCEPT !.op = "randomize_point", !.P = P,
                            !.l = shr_below(l_draw, WeierstrassGroup.p),
                            !.out = jacobian_randomize_point(WeierstrassGroup, P, l_draw)]

\* jacobian_coords::normalize_point(group, R) on the point R that
\* randomize_point returned.
CallNormalizePoint ==
    ec' = [ec EXCEPT !.op = "normalize_point",
                     !.out = jacobian_normalize_point(WeierstrassGroup, ec.out)]

\* The x-only points handed to montgomery_ladder::multiply: the base point
\* and its double.
LadderPoints ==
    { ECPPoint(montgomery_reference_x(MontgomeryGroup, k, MontgomeryGroup.g.x), NoY) :
        k \in 1..2 }

\* montgomery_ladder::multiply(group, m, P)
CallLadderMultiply(m, P, drawn) ==
    ec' = [CurveIdle EXCEPT !.op = "ladder_multiply", !.m = m, !.P = P, !.l = drawn,
                            !.out = montgomery_multiply(MontgomeryGroup, m, P, drawn)]

InitCurve ==
    /\ ec = CurveIdle
    /\ primes = PrimesIdle /\ rsa = [status |-> "idle"] /\ dh = [status |-> "idle"]

NextCurve ==
    /\ UNCHANGED <<primes, rsa, dh>>
    /\ \/ /\ ec.op = "idle"
          /\ \E m \in 0..(WeierstrassGroup.n - 1), l_draw \in BlindDraws :
                CallCombMultiply(m, l_draw)
       \/ /\ ec.op = "idle"
          /\ \E P \in CurvePoints, l_draw \in RandomizeDraws : CallRandomizePoint(P, l_draw)
       \/ /\ ec.op = "randomize_point"
          /\ CallNormalizePoint
       \/ /\ ec.op = "idle"
          /\ \E m \in 1..MaxPointMultiple, P \in LadderPoints, drawn \in LadderDraws :
                CallLadderMultiply(m, P, drawn)

SpecCurve == InitCurve /\ [][NextCurve]_vars

(***************************************************************************)
(* The table specification: a sequence of comb_method::multiply calls on   *)
(* one group, with the base point and with other points.                   *)
(***************************************************************************)

\* The number of multiply calls made on the group, and the multiples of the
\* base point that are multiplied.
MaxCombCalls == 3
MaxCombPoint == 3

CombPoints ==
    { naive_multiply(WeierstrassGroup, k, WeierstrassGroup.g) : k \in 1..MaxCombPoint }

CombInitial ==
    [group |-> WeierstrassGroup, calls |-> 0, m |-> 0, P |-> ECPPoint(0, 0),
     out |-> ECPPoint(0, 0)]

\* comb_method::multiply(&mut group, m, P, rng)
CallMultiplyOnGroup(m, P, l_draw) ==
    LET stored(res) ==
            [group |-> res[1], calls |-> ec.calls + 1, m |-> m, P |-> P, out |-> res[2]]
    IN  ec' = stored(comb_multiply(ec.group, m, P, l_draw))

InitComb ==
    /\ ec = CombInitial
    /\ primes = PrimesIdle /\ rsa = [status |-> "idle"] /\ dh = [status |-> "idle"]

NextComb ==
    /\ UNCHANGED <<primes, rsa, dh>>
    /\ ec.calls < MaxCombCalls
    /\ \E m \in 1..MaxPointMultiple, P \in CombPoints, l_draw \in BlindDraws :
          CallMultiplyOnGroup(m, P, l_draw)

SpecComb == InitComb /\ [][NextComb]_vars

(***************************************************************************)
(* Properties of ECDH and ECDSA.                                           *)
(***************************************************************************)

\* C6: two ECDH parties on the same curve that exchanged their public points
\* get the same x-coordinate from generate_shared_key, on the short-Weierstrass
\* curve (comb multiplication) and on the Montgomery curve (ladder), for every
\* pair of valid private scalars.
C6_ECDHSymmetry ==
    (ec.status = "running" /\ ec.proto = "ECDH" /\ ec.A.called /\ ec.B.called)
    => ec.A.z = ec.B.z

C6_Witness ==
    /\ ec.status = "running" /\ ec.proto = "ECDH"
    /\ ec.A.called /\ ec.B.called
    /\ ec.A.keypair.d # ec.B.keypair.d
    /\ ec.A.q # ec.B.q
    /\ ec.A.z = ec.B.z

\* C7: for every message m and every keypair of ECDSA::new, verify(m, sign(m))
\* accepts, whatever nonce k sign draws.
C7_VerifyAccepts ==
    (ec.proto = "ECDSA" /\ ec.signed /\ ec.verdict # "none")
    => ec.verdict = "accepted"

\* C11: on the short-Weierstrass curve, for every m in [0, n) the point
\* comb_method::multiply(group, m, g) equals the affine point m * g computed
\* by naive double-and-add.
C11_CombAgreesWithNaive ==
    ec.op = "multiply"
    => ec.out = naive_multiply(WeierstrassGroup, ec.m, WeierstrassGroup.g)

\* C24: montgomery_ladder::multiply(group, m, P) makes one ladder step for
\* each bit index from bits(m) - 1 down to 0 and returns the affine
\* x-coordinate of m * P with z = 1, for every m >= 1 and x-only point P.
C24_LadderMultiply ==
    ec.op = "ladder_multiply"
    => /\ ladder_indices(Bits(ec.m)) = [k \in 1..Bits(ec.m) |-> Bits(ec.m) - k]
       /\ ec.out.z = 1
       /\ ec.out.x = montgomery_reference_x(MontgomeryGroup, ec.m, ec.P.x)

\* The Jacobian point R stands for the affine point Q, or for -Q when sgn
\* is -1.
SamePoint(group, R, Q, sgn) ==
    /\ R.z # 0
    /\ (R.x - Q.x * R.z * R.z) % group.p = 0
    /\ (R.y - sgn * Q.y * R.z * R.z * R.z) % group.p = 0

\* C27: in every call of jacobian_coords::add made during a comb
\* multiplication m * P with 1 <= m < n, the accumulator R is not the
\* identity (R.z # 0), is neither Q nor -Q, and the sum is not the identity.
C27_AddPreconditions ==
    (ec.op = "multiply" /\ 1 <= ec.m /\ ec.m < WeierstrassGroup.n)
    => \A k \in 1..Len(ec.adds) :
          /\ ec.adds[k].R.z # 0
          /\ ~SamePoint(WeierstrassGroup, ec.adds[k].R, ec.adds[k].Q, 1)
          /\ ~SamePoint(WeierstrassGroup, ec.adds[k].R, ec.adds[k].Q, -1)
          /\ ec.adds[k].sum.z # 0

\* The table multiply computes for the base point, and its size.
GeneratorWindow == get_window_size(WeierstrassGroup.nbits, TRUE)

GeneratorTable ==
    precompute(WeierstrassGroup, WeierstrassGroup.g, GeneratorWindow,
               (WeierstrassGroup.nbits + GeneratorWindow - 1) \div GeneratorWindow)

\* C28: comb_method::multiply with P # g leaves group.t and group.t_size
\* unchanged; after any sequence of multiplications group.t is still empty
\* or the table precomputed from g alone, with t_size = 2^(w-1) for the
\* window w chosen for P = g.
C28_TableFrame ==
    /\ [](\/ ec.group.t = <<>> /\ ec.group.t_size = 0
          \/ /\ ec.group.t = GeneratorTable
             /\ ec.group.t_size = Pow2(GeneratorWindow - 1))
    /\ [][ec'.P # WeierstrassGroup.g => ec'.group = ec.group]_vars

\* The table is in place and a multiplication of another point has left it
\* as it was.
C28_Witness ==
    /\ ec.calls >= 2 /\ ec.P # WeierstrassGroup.g
    /\ ec.group.t = GeneratorTable /\ ec.group.t_size = 16
    /\ TGet(ec.group.t, 0) = WeierstrassGroup.g

ReturnedKeypairs ==
    { party.keypair : party \in { pt \in {ec.A, ec.B} : pt.created } }
    \cup (IF ec.signer_ready THEN {ec.signer} ELSE {})

\* C13: on a Montgomery curve every private scalar d returned by
\* get_valid_private_value and accepted by check_private_key has exactly nbits
\* bits, bit nbits - 1 set, and its three least significant bits cleared.
C13_MontgomeryScalar ==
    \A keypair \in ReturnedKeypairs :
        get_curve_shape(keypair.group) = "Montgomery"
        => /\ Bits(keypair.d) = keypair.group.nbits
           /\ (keypair.d \div Pow2(keypair.group.nbits - 1)) % 2 = 1
           /\ keypair.d % 8 = 0

\* C14: every signature (r, s) that ECDSA::sign returns satisfies 1 <= r < n
\* and 1 <= s < n, with r = (k * g).x mod n for the affine point k * g (stated
\* against double-and-add on the short-Weierstrass curve); sign fails instead
\* of returning when r = 0 or s = 0.
C14_SignatureRange ==
    (ec.proto = "ECDSA" /\ ec.signed)
    => /\ 1 <= ec.signature.r /\ ec.signature.r < ec.signer.group.n
       /\ 1 <= ec.signature.s /\ ec.signature.s < ec.signer.group.n
       /\ get_curve_shape(ec.signer.group) = "ShortWeierstrass"
          => ec.signature.r
             = naive_multiply(ec.signer.group, ec.nonce, ec.signer.group.g).x
               % ec.signer.group.n

RSAIdle == [status |-> "idle"]
DHIdle == [status |-> "idle"]
ECIdle == [status |-> "idle"]

\* miller_rabin(candidate, Len(bases)) with the bases its generator draws.
CallMillerRabin(candidate, bases) ==
    primes' = [PrimesIdle EXCEPT !.op = "miller_rabin", !.candidate = candidate,
                                 !.bases = bases,
                                 !.returned = miller_rabin(candidate, bases)]

\* The sequences of 1..MaxMRIterations bases miller_rabin can draw.
MRBaseDraws(candidate) ==
    UNION { [1..k -> MRBases(candidate)] : k \in 1..MaxMRIterations }

InitPrimes == primes = PrimesIdle /\ rsa = RSAIdle /\ dh = DHIdle /\ ec = ECIdle

NextPrimes ==
    /\ UNCHANGED <<rsa, dh, ec>>
    /\ \/ \E b \in 1..MaxGenBits : \E c \in 0..(Pow2(b - 1) - 1) : generate(b, c)
       \/ \E b \in 1..MaxGenBits : \E c \in 0..(Pow2(b - 1) - 1) :
              CallGenerateRandomBiguint(b, c)
       \/ \E c \in 0..(Pow2(MaxGenBits) - 1) : CallIsSmallPrime(c)
       \/ \E a \in 1..MaxModInvArg, m \in 1..MaxModInvArg : CallModularInverse(a, m)
       \/ \E c \in 5..MaxMRCandidate : \E bases \in MRBaseDraws(c) :
              CallMillerRabin(c, bases)

SpecPrimes == InitPrimes /\ [][NextPrimes]_vars

(***************************************************************************)
(* Properties of prime generation.                                         *)
(***************************************************************************)

\* C8: every value generate(b) returns, and every candidate
\* generate_random_biguint(b) produces, is odd and has exactly b bits.
C8_ExactBitLength ==
    primes.op \in {"generate", "generate_random_biguint"} =>
        /\ primes.candidate % 2 = 1
        /\ Bits(primes.candidate) = primes.bitlength

\* C9: below the threshold every returned value is prime, and is_small_prime
\* answers true exactly for the primes.
C9_SmallPrimesArePrime ==
    /\ (primes.op = "generate" /\ primes.bitlength < LARGE_THRESHOLD)
          => IsPrime(primes.candidate)
    /\ primes.op = "is_small_prime" => (primes.returned <=> IsPrime(primes.candidate))

\* C10: for a >= 1, m >= 2 and gcd(a, m) = 1 the result v of modular_inverse(a, m)
\* satisfies 0 <= v < m and (a * v) mod m = 1; modular_inverse(3, 11) = 4.
C10_ModularInverse ==
    (primes.op = "modular_inverse" /\ primes.modulus >= 2
        /\ Gcd(primes.a, primes.modulus) = 1)
    => /\ 0 <= primes.out /\ primes.out < primes.modulus
       /\ (primes.a * primes.out) % primes.modulus = 1
       /\ (primes.a = 3 /\ primes.modulus = 11) => primes.out = 4

C10_Witness ==
    primes.op = "modular_inverse" /\ primes.a = 3 /\ primes.modulus = 11 /\ primes.out = 4

\* C17: modular_inverse(a, m) fails with NotInvertible whenever gcd(a, m) # 1
\* and never returns a value in that case: every call that returns a value
\* was made with gcd(a, m) = 1.
C17_NotInvertibleFails ==
    primes.op = "modular_inverse" => Gcd(primes.a, primes.modulus) = 1

\* basis is a Miller-Rabin witness that candidate is composite: with
\* candidate - 1 = 2^s * d, basis^d is neither 1 nor -1 and none of the
\* squarings basis^(2^r * d), 0 < r < s, is -1 (mod candidate).
MillerRabinWitness(candidate, basis) ==
    LET sd == greatest_2_divisor(candidate)
    IN  /\ ModPow(basis, sd[2], candidate) \notin {1, candidate - 1}
        /\ \A r \in 1..(sd[1] - 1) :
              ModPow(basis, Pow2(r) * sd[2], candidate) # candidate - 1

\* C23: miller_rabin(c, k) returns false only when one of the drawn bases is
\* a Miller-Rabin witness that c is composite; for every prime c >= 5 and
\* every choice of the bases it returns true.
C23_MillerRabinSound ==
    primes.op = "miller_rabin"
    => /\ ~primes.returned
            => \E k \in 1..Len(primes.bases) :
                   MillerRabinWitness(primes.candidate, primes.bases[k])
       /\ IsPrime(primes.candidate) => primes.returned

=============================================================================
